---------------------------- MODULE Spec2Model ----------------------------
(***************************************************************************)
(* A model of plot_opinions.py (eterps/polislite): load_from_yaml builds   *)
(* the vote matrix, main hands it to the external analyzer, jitters the   *)
(* returned points and plot_opinion_clusters draws the buffered convex    *)
(* hulls, the markers, the labels and the viewport.                       *)
(*                                                                         *)
(* Real coordinates are fixed-point integers, Unit steps to one plot unit. *)
(***************************************************************************)
EXTENDS Integers, Sequences, FiniteSets, TLC

VARIABLES
    doc,        \* the parsed YAML document: [statements, votes]
    pc,         \* position of main: "start", "loaded", "analyzed", "done", "failed"
    loaded,     \* what load_from_yaml returned: [statements, votes, usernames]
    analyzed,   \* how often analyzer.analyze was called
    results,    \* what analyze returned: [points_2d, clusters]
    points_2d,  \* plot_opinion_clusters' argument: the caller's array of points
    clusters,   \* plot_opinion_clusters' argument: one label per point
    usernames,  \* plot_opinion_clusters' argument: one name per participant
    output_path,\* plot_opinion_clusters' argument: a path or NoPath
    calls,      \* finished invocations of plot_opinion_clusters
    plot,       \* what the last invocation drew and how it ended
    figures,    \* pyplot's registry: the number of figures still open
    err         \* the exception that left the last operation, or NoError

vars == <<doc, pc, loaded, analyzed, results, points_2d, clusters, usernames,
          output_path, calls, plot, figures, err>>

---------------------------------------------------------------------------
(* Bounds of the model                                                     *)

\* longest vote list of a participant, and longest statement list
MaxVotes == 2
\* most points of a plot
MaxPoints == 6
\* most invocations of plot_opinion_clusters in one process
MaxCalls == 2
\* fixed-point resolution: HalfUnit steps are half a plot unit
HalfUnit == 500

Unit == 2 * HalfUnit

NoError == "none"
NoPath == "None"
Nothing == <<>>

---------------------------------------------------------------------------
(* Sequences                                                               *)

SeqsUpTo(S, n) == UNION {[1..k -> S] : k \in 0..n}

Range(s) == {s[i] : i \in 1..Len(s)}

NoRepeat(s) == \A i, j \in 1..Len(s) : i # j => s[i] # s[j]

RECURSIVE Sum(_)
Sum(s) == IF s = <<>> THEN 0 ELSE Head(s) + Sum(Tail(s))

Abs(a) == IF a < 0 THEN -a ELSE a

---------------------------------------------------------------------------
(* load_from_yaml                                                          *)

\* vote tokens as yaml.safe_load yields them; "null" stands for None
Tokens == {"agree", "disagree", "Agree", "", "null"}
\* the tokens of the documents main is run on
MainTokens == {"agree", "disagree", "maybe"}

ParticipantIds == {"alice", "bob"}
StatementPool == <<"s2", "s1", "s3", "s4">>

\* a document: the statements, and the votes mapping in insertion order
DocsOver(T) ==
    { [statements |-> SubSeq(StatementPool, 1, k), votes |-> v] :
        k \in 0..MaxVotes,
        v \in { w \in SeqsUpTo([id : ParticipantIds, tokens : SeqsUpTo(T, MaxVotes)],
                               Cardinality(ParticipantIds)) :
                  NoRepeat([i \in 1..Len(w) |-> w[i].id]) } }

\* a faulty variant: the lookup ignores the token's case
vote_map_get_nocase(v) ==
    IF v \in {"agree", "Agree"} THEN 1 ELSE IF v = "disagree" THEN -1 ELSE 0

\* vote_map.get(v, 0)
vote_map_get(v) ==
    IF v = "agree" THEN 1 ELSE IF v = "disagree" THEN -1 ELSE 0

\* the nested list comprehension: one row per value of data["votes"]
VoteRows(d) ==
    [i \in 1..Len(d.votes) |->
        [j \in 1..Len(d.votes[i].tokens) |-> vote_map_get(d.votes[i].tokens[j])]]

Ragged(rows) == \E i, j \in 1..Len(rows) : Len(rows[i]) # Len(rows[j])

\* np.array(votes): rows of one length give a matrix; rows of different
\* lengths raise ValueError (NumPy >= 1.24) or give an array of row
\* objects (older NumPy), whichever NumPy is installed
NpArray(rows) ==
    IF Ragged(rows)
    THEN {[raised |-> "ValueError", value |-> Nothing],
          [raised |-> NoError, value |-> rows]}
    ELSE {[raised |-> NoError, value |-> rows]}

Keys(d) == [i \in 1..Len(d.votes) |-> d.votes[i].id]

LoadFromYaml ==
    /\ pc = "start"
    /\ \E a \in NpArray(VoteRows(doc)) :
         IF a.raised # NoError
         THEN /\ pc' = "failed"
              /\ err' = a.raised
              /\ UNCHANGED loaded
         ELSE /\ pc' = "loaded"
              /\ loaded' = [statements |-> doc.statements,
                            votes |-> a.value,
                            usernames |-> Keys(doc)]
              /\ UNCHANGED err
    /\ UNCHANGED <<doc, analyzed, results, points_2d, clusters, usernames,
                   output_path, calls, plot, figures>>

---------------------------------------------------------------------------
(* Fixed-point arithmetic                                                  *)

\* a / b rounded to the nearest step, b > 0
FDiv(a, b) == (2 * a + b) \div (2 * b)

RECURSIVE ISqrtFrom(_, _)
ISqrtFrom(n, r) == IF (r + 1) * (r + 1) > n THEN r ELSE ISqrtFrom(n, r + 1)

RECURSIVE ISqrtIn(_, _, _)
ISqrtIn(n, lo, hi) ==
    IF hi - lo <= 1 THEN ISqrtFrom(n, lo)
    ELSE LET mid == (lo + hi) \div 2
         IN  IF mid * mid <= n THEN ISqrtIn(n, mid, hi) ELSE ISqrtIn(n, lo, mid)

\* np.sqrt rounded to the nearest step
Sqrt(n) ==
    LET r == ISqrtIn(n, 0, 16 * Unit)
    IN  IF n - r * r > r THEN r + 1 ELSE r

---------------------------------------------------------------------------
(* plot_opinion_clusters: the hull of one cluster                          *)

RECURSIVE SortedSeq(_)
SortedSeq(S) ==
    IF S = {} THEN <<>>
    ELSE LET m == CHOOSE x \in S : \A y \in S : x <= y
         IN  <<m>> \o SortedSeq(S \ {m})

\* np.unique(clusters): the distinct labels, ascending
Unique(cl) == SortedSeq(Range(cl))

RECURSIVE Masked(_, _, _)
Masked(pts, cl, id) ==
    IF pts = <<>> THEN <<>>
    ELSE (IF Head(cl) = id THEN <<Head(pts)>> ELSE <<>>)
         \o Masked(Tail(pts), Tail(cl), id)

\* points_2d[clusters == cluster_id]; the mask must be as long as the array
ClusterPoints(pts, cl, id) == Masked(pts, cl, id)

Cross(o, a, b) == (a[1] - o[1]) * (b[2] - o[2]) - (a[2] - o[2]) * (b[1] - o[1])

Dot(o, a, b) == (a[1] - o[1]) * (b[1] - o[1]) + (a[2] - o[2]) * (b[2] - o[2])

\* every point on one line (or on one spot): Qhull has no initial simplex
Flat(pts) ==
    \A j, k \in 1..Len(pts) : Cross(pts[1], pts[j], pts[k]) = 0

\* a -> b is an edge of the hull, walked counterclockwise
HullEdge(S, a, b) ==
    /\ a # b
    /\ \A q \in S :
         \/ Cross(a, b, q) > 0
         \/ /\ Cross(a, b, q) = 0
            /\ Dot(a, q, b) >= 0
            /\ Dot(a, q, b) <= Dot(a, b, b)

HullNext(S, a) == CHOOSE b \in S : HullEdge(S, a, b)

RECURSIVE HullWalk(_, _, _)
HullWalk(S, first, a) ==
    LET b == HullNext(S, a)
    IN  IF b = first THEN <<a>> ELSE <<a>> \o HullWalk(S, first, b)

\* ConvexHull(cluster_points) and cluster_points[hull.vertices]: the
\* extreme points counterclockwise, from the first input point that is one
ConvexHull(pts) ==
    IF Flat(pts)
    THEN [raised |-> "QhullError", vertices |-> <<>>]
    ELSE LET S == Range(pts)
             V == {a \in S : \E b \in S : HullEdge(S, a, b)}
             i == CHOOSE k \in 1..Len(pts) :
                      /\ pts[k] \in V
                      /\ \A l \in 1..(k - 1) : pts[l] \notin V
         IN  [raised |-> NoError, vertices |-> HullWalk(S, pts[i], pts[i])]

\* the offset of the hull: 0.5 plot units
Margin == Unit \div 2

\* np.mean(hull_points, axis=0)
Centroid(hp) ==
    << FDiv(Sum([i \in 1..Len(hp) |-> hp[i][1]]), Len(hp)),
       FDiv(Sum([i \in 1..Len(hp) |-> hp[i][2]]), Len(hp)) >>

\* one hull vertex h moved by dir * Margin along the unit vector from c
Offset(h, c, len, dir) ==
    << h[1] + dir * FDiv(FDiv((h[1] - c[1]) * Unit, len) * Margin, Unit),
       h[2] + dir * FDiv(FDiv((h[2] - c[2]) * Unit, len) * Margin, Unit) >>

OffsetFrom(h, c, dir) == Offset(h, c, Sqrt(Dot(c, h, h)), dir)

OffsetAll(hp, c, dir) == [i \in 1..Len(hp) |-> OffsetFrom(hp[i], c, dir)]

Closed(b) == b \o <<b[1]>>

\* a faulty variant: the offset points toward the centroid
BufferedInward(hp) == Closed(OffsetAll(hp, Centroid(hp), -1))

\* a faulty variant: the polygon is left open
BufferedOpen(hp) == OffsetAll(hp, Centroid(hp), 1)

\* vectors, lengths, normalized_vectors, buffered_points and the vstack
\* that repeats the first buffered point
Buffered(hp) == Closed(OffsetAll(hp, Centroid(hp), 1))

\* entries of the colormap's lookup table
LutSize == 256

\* plt.cm.viridis(cluster_id / len(np.unique(clusters))): the entry of the
\* lookup table a float selects; below 0 the first, from 1 on the last
Viridis(id, k) ==
    LET xa == (id * LutSize) \div k
    IN  IF id < 0 THEN 0 ELSE IF xa >= LutSize THEN LutSize - 1 ELSE xa

\* a faulty variant: clusters of exactly three members get no hull
MinHullPointsOff == 3 + 1

\* len(cluster_points) >= 3
MinHullPoints == 3

\* the patch drawn over a hull, in the colour of the label
HullPatch(id, k, hull) ==
    IF hull.raised # NoError
    THEN [raised |-> hull.raised, patches |-> <<>>]
    ELSE [raised |-> NoError,
          patches |-> << [cluster_id |-> id,
                          hull_points |-> hull.vertices,
                          centroid |-> Centroid(hull.vertices),
                          buffered_points |-> Buffered(hull.vertices),
                          color |-> Viridis(id, k)] >>]

\* the if of the loop: a hull for MinHullPoints members or more
PatchOver(cp, id, k) ==
    IF Len(cp) >= MinHullPoints
    THEN HullPatch(id, k, ConvexHull(cp))
    ELSE [raised |-> NoError, patches |-> <<>>]

\* the body of the loop for one label: the patch it adds, if any
ClusterPatch(pts, cl, id) ==
    IF Len(pts) # Len(cl)
    THEN [raised |-> "IndexError", patches |-> <<>>]
    ELSE PatchOver(ClusterPoints(pts, cl, id), id, Len(Unique(cl)))

\* the loop over np.unique(clusters); an exception ends it
RECURSIVE DrawHulls(_, _, _, _)
DrawHulls(pts, cl, ids, done) ==
    IF ids = <<>> THEN [raised |-> NoError, patches |-> done]
    ELSE LET one == ClusterPatch(pts, cl, Head(ids))
         IN  IF one.raised # NoError
             THEN [raised |-> one.raised, patches |-> done]
             ELSE DrawHulls(pts, cl, Tail(ids), done \o one.patches)

---------------------------------------------------------------------------
(* plot_opinion_clusters: markers, labels, viewport, output                *)

RECURSIVE MinOf(_)
MinOf(s) ==
    IF Len(s) = 1 THEN s[1]
    ELSE LET m == MinOf(Tail(s)) IN IF Head(s) <= m THEN Head(s) ELSE m

RECURSIVE MaxOf(_)
MaxOf(s) ==
    IF Len(s) = 1 THEN s[1]
    ELSE LET m == MaxOf(Tail(s)) IN IF Head(s) >= m THEN Head(s) ELSE m

Column(pts, k) == [i \in 1..Len(pts) |-> pts[i][k]]

\* the padding is 0.2 = 1 / PadDen of the span; limits are kept in
\* steps of 1 / PadDen so that they are exact
PadDen == 5

\* a faulty variant: the padding is taken off the range instead of added
LimitsInward(xs) ==
    LET lo == MinOf(xs)
        hi == MaxOf(xs)
    IN  << PadDen * lo + (hi - lo), PadDen * hi - (hi - lo) >>

\* x_min - padding_x, x_max + padding_x, in steps of 1 / PadDen
Limits(xs) ==
    LET lo == MinOf(xs)
        hi == MaxOf(xs)
    IN  << PadDen * lo - (hi - lo), PadDen * hi + (hi - lo) >>

NoPlot == [status |-> "none", raised |-> NoError, patches |-> <<>>,
           markers |-> <<>>, labels |-> <<>>, xlim |-> <<>>, ylim |-> <<>>,
           saved |-> NoPath, shown |-> FALSE, closed |-> FALSE]

Raised(e, patches, markers, labels) ==
    [NoPlot EXCEPT !.status = "raised", !.raised = e, !.patches = patches,
                   !.markers = markers, !.labels = labels]

\* plt.scatter(..., c=clusters): the colours must fit the points; an empty
\* colour array with points to draw is refused or drawn uncoloured,
\* whichever Matplotlib is installed
Scatter(pts, cl) ==
    IF Len(cl) = Len(pts) THEN {NoError}
    ELSE IF Len(cl) = 0 THEN {NoError, "ValueError"}
    ELSE {"ValueError"}

\* the annotations made before points_2d[i] runs off the array
Annotations(pts, names) ==
    LET n == IF Len(names) <= Len(pts) THEN Len(names) ELSE Len(pts)
    IN  [i \in 1..n |-> [user |-> names[i], at |-> pts[i]]]

\* every way one invocation can end, with what it drew
PlotAfterHulls(hulls, pts, cl, names, path) ==
    IF hulls.raised # NoError
    THEN {Raised(hulls.raised, hulls.patches, <<>>, <<>>)}
    ELSE
        { IF s # NoError
          THEN Raised(s, hulls.patches, <<>>, <<>>)
          ELSE IF Len(names) > Len(pts)
          THEN Raised("IndexError", hulls.patches, pts, Annotations(pts, names))
          ELSE IF Len(pts) = 0
          THEN Raised("ValueError", hulls.patches, pts, Annotations(pts, names))
          ELSE [status |-> "returned", raised |-> NoError,
                patches |-> hulls.patches,
                markers |-> pts,
                labels |-> Annotations(pts, names),
                xlim |-> Limits(Column(pts, 1)),
                ylim |-> Limits(Column(pts, 2)),
                saved |-> path,
                shown |-> (path = NoPath),
                closed |-> TRUE]
          : s \in Scatter(pts, cl) }

PlotOutcomes(pts, cl, names, path) ==
    UNION { PlotAfterHulls(hulls, pts, cl, names, path) :
              hulls \in {DrawHulls(pts, cl, Unique(cl), <<>>)} }

\* one invocation: plt.figure opens a figure, and only the plt.close()
\* of the last line closes it
Invoke(pts, cl, names, path) ==
    \E o \in PlotOutcomes(pts, cl, names, path) :
        /\ plot' = o
        /\ err' = o.raised
        /\ figures' = IF o.closed THEN figures ELSE figures + 1
        /\ calls' = calls + 1

\* plot_opinion_clusters called on the caller's arrays
PlotOpinionClusters ==
    /\ pc = "plot"
    /\ calls < MaxCalls
    /\ Invoke(points_2d, clusters, usernames, output_path)
    /\ UNCHANGED <<doc, pc, loaded, analyzed, results, points_2d, clusters,
                   usernames, output_path>>

---------------------------------------------------------------------------
(* main                                                                    *)

\* what the external analyzer may hand back for n participants: arrays of
\* any length from 0 to n + 1
AnalyzerPoints == {<<0, 0>>, <<Unit, 0>>}

AnalyzerResults(n) ==
    [points_2d : SeqsUpTo(AnalyzerPoints, n + 1),
     clusters : SeqsUpTo({0, 1}, n + 1)]

\* results = analyzer.analyze(votes, statements): the analyzer is an
\* external collaborator, called with whatever load_from_yaml returned
Analyze ==
    /\ pc = "loaded"
    /\ analyzed' = analyzed + 1
    /\ results' \in AnalyzerResults(Len(loaded.usernames))
    /\ pc' = "analyzed"
    /\ UNCHANGED <<doc, loaded, points_2d, clusters, usernames, output_path,
                   calls, plot, figures, err>>

\* draws of np.random.normal(0, 0.1, points_2d.shape), one per point
JitterDraws == {<<0, 0>>, <<Unit \div 10, -(Unit \div 20)>>}

\* Path(yaml_file).with_suffix(".png")
PngPath == "input.png"

\* the jitter and the call of plot_opinion_clusters
MainPlot ==
    /\ pc = "analyzed"
    /\ \E jitter \in [1..Len(results.points_2d) -> JitterDraws] :
         LET jittered == [i \in 1..Len(results.points_2d) |->
                            << results.points_2d[i][1] + jitter[i][1],
                               results.points_2d[i][2] + jitter[i][2] >>]
         IN  /\ points_2d' = jittered
             /\ clusters' = results.clusters
             /\ usernames' = loaded.usernames
             /\ output_path' = PngPath
             /\ Invoke(jittered, results.clusters, loaded.usernames, PngPath)
    /\ pc' = IF err' = NoError THEN "done" ELSE "failed"
    /\ UNCHANGED <<doc, loaded, analyzed, results>>

---------------------------------------------------------------------------
(* Specifications                                                          *)

Idle ==
    /\ loaded = Nothing
    /\ analyzed = 0
    /\ results = Nothing
    /\ calls = 0
    /\ plot = NoPlot
    /\ figures = 0
    /\ err = NoError

\* main on one document
Init ==
    /\ doc \in DocsOver(MainTokens)
    /\ pc = "start"
    /\ points_2d = <<>>
    /\ clusters = <<>>
    /\ usernames = <<>>
    /\ output_path = NoPath
    /\ Idle

Next == LoadFromYaml \/ Analyze \/ MainPlot

Spec == Init /\ [][Next]_vars

\* load_from_yaml alone, on every document
InitLoad ==
    /\ doc \in DocsOver(Tokens)
    /\ pc = "start"
    /\ points_2d = <<>>
    /\ clusters = <<>>
    /\ usernames = <<>>
    /\ output_path = NoPath
    /\ Idle

NextLoad == LoadFromYaml

SpecLoad == InitLoad /\ [][NextLoad]_vars

\* plot_opinion_clusters alone: the points of a plot lie on a grid
Grid == << <<0, 0>>, <<Unit, 0>>, <<2 * Unit, 0>>, <<0, Unit>>, <<2 * Unit, Unit>> >>

\* the labels of a plot, ascending: labels from 0 on, or with the label
\* -1 that clusterers give to noise
LabelSets == { <<0>>, <<-1>>, <<0, 1>>, <<-1, 0>> }

NamePool == <<"alice", "bob", "carol", "dave", "erin", "frank", "grace",
              "heidi", "ivan", "judy">>

\* the index sequences of length k that never descend, from lo on
RECURSIVE Ascending(_, _)
Ascending(k, lo) ==
    IF k = 0 THEN {<<>>}
    ELSE UNION { {<<i>> \o t : t \in Ascending(k - 1, i)} : i \in lo..Len(Grid) }

\* the members of one cluster: k grid points, repeats allowed
Members == [k \in 1..MaxPoints |->
              { [i \in 1..k |-> Grid[s[i]]] : s \in Ascending(k, 1) }]

Labels(id, m) == [i \in 1..Len(m) |-> id]

\* the caller's arrays: one cluster, or two with the lower label first, of
\* up to MaxPoints points in all
PlotInput(pts, cl) ==
    \E ids \in LabelSets :
        \/ /\ Len(ids) = 1
           /\ \E k \in 1..MaxPoints :
                \E m \in Members[k] :
                   /\ pts = m
                   /\ cl = Labels(ids[1], m)
        \/ /\ Len(ids) = 2
           /\ \E k1, k2 \in 1..MaxPoints :
                /\ k1 + k2 <= MaxPoints
                /\ \E m1 \in Members[k1], m2 \in Members[k2] :
                     /\ pts = m1 \o m2
                     /\ cl = Labels(ids[1], m1) \o Labels(ids[2], m2)

InitPlot ==
    /\ doc = [statements |-> <<>>, votes |-> <<>>]
    /\ pc = "plot"
    /\ PlotInput(points_2d, clusters)
    /\ usernames = SubSeq(NamePool, 1, Len(points_2d))
    /\ output_path \in {NoPath, "out.png"}
    /\ Idle

NextPlot == PlotOpinionClusters

SpecPlot == InitPlot /\ [][NextPlot]_vars

---------------------------------------------------------------------------
(* Claims about load_from_yaml, checked under SpecLoad                     *)

VoteLengthMismatch ==
    \E i \in 1..Len(doc.votes) : Len(doc.votes[i].tokens) # Len(doc.statements)

\* C1: every entry of the returned matrix is decided by the token at its
\* position alone: "agree" gives 1, "disagree" gives -1, every other token
\* (empty, misspelt, null) gives 0
C1_VoteLexicon ==
    loaded # Nothing =>
        \A i \in 1..Len(doc.votes) :
            /\ Len(loaded.votes[i]) = Len(doc.votes[i].tokens)
            /\ \A j \in 1..Len(doc.votes[i].tokens) :
                 LET token == doc.votes[i].tokens[j]
                     entry == loaded.votes[i][j]
                 IN  /\ entry \in {-1, 0, 1}
                     /\ entry = 1 <=> token = "agree"
                     /\ entry = -1 <=> token = "disagree"

\* C1 witness: a matrix built from agree, disagree, a misspelling and null
C1_Witness ==
    /\ loaded # Nothing
    /\ Len(doc.votes) = 2
    /\ doc.votes[1].tokens = <<"agree", "disagree">>
    /\ doc.votes[2].tokens = <<"Agree", "null">>
    /\ loaded.votes = << <<1, -1>>, <<0, 0>> >>

\* C3: whenever load_from_yaml returns, the rows follow the votes mapping's
\* insertion order, the statements keep their order, and every row has
\* len(statements) entries
C3_RowsMatchStatements ==
    loaded # Nothing =>
        /\ loaded.statements = doc.statements
        /\ Len(loaded.votes) = Len(doc.votes)
        /\ Len(loaded.usernames) = Len(doc.votes)
        /\ \A i \in 1..Len(doc.votes) :
             /\ loaded.usernames[i] = doc.votes[i].id
             /\ Len(loaded.votes[i]) = Len(loaded.statements)

---------------------------------------------------------------------------
(* Claims about main, checked under Spec                                   *)

\* C2: a document in which some participant's vote list is not as long as
\* the statement list never reaches analyzer.analyze, and no figure is drawn
C2_MismatchFailsBeforeAnalyze ==
    VoteLengthMismatch => (analyzed = 0 /\ calls = 0)

\* C8: an image is written, and main ends normally, only when points_2d
\* and clusters both have one entry per participant
C8_ShapeValidated ==
    (pc = "done" \/ plot.saved # NoPath) =>
        /\ Len(results.points_2d) = Len(loaded.usernames)
        /\ Len(results.clusters) = Len(loaded.usernames)

---------------------------------------------------------------------------
(* Claims about plot_opinion_clusters, checked under SpecPlot              *)

MembersOf(id) == {i \in 1..Len(clusters) : clusters[i] = id}

PointsOf(id) == {points_2d[i] : i \in MembersOf(id)}

\* the members lie on one line or on one spot
Degenerate(id) ==
    \A a, b, c \in PointsOf(id) : Cross(a, b, c) = 0

PatchesOf(id) == {k \in 1..Len(plot.patches) : plot.patches[k].cluster_id = id}

\* p is a corner of the convex hull of S: it lies neither on a segment
\* between two other points nor inside a triangle of three others
Corner(S, p) ==
    /\ \A a, b \in S \ {p} : ~(Cross(a, b, p) = 0 /\ Dot(p, a, b) <= 0)
    /\ \A a, b, c \in S \ {p} :
         ~(Cross(a, b, p) > 0 /\ Cross(b, c, p) > 0 /\ Cross(c, a, p) > 0)

\* the patch is the closed polygon over the hull of the cluster
ClosedOverHull(id, patch) ==
    LET corners == {p \in PointsOf(id) : Corner(PointsOf(id), p)}
        poly == patch.buffered_points
    IN  /\ Range(patch.hull_points) = corners
        /\ Len(patch.hull_points) = Cardinality(corners)
        /\ Len(poly) = Cardinality(corners) + 1
        /\ poly[Len(poly)] = poly[1]

NeedsHull(id) == Cardinality(MembersOf(id)) >= 3 /\ ~Degenerate(id)

Reached(id) ==
    /\ Len(points_2d) = Len(clusters)
    /\ \A low \in Range(clusters) :
         low < id => ~(Cardinality(MembersOf(low)) >= 3 /\ Degenerate(low))

C5_FigureReleased ==
    figures = 0

\* C6: a cluster of 3 or more members on one line or one spot is never
\* skipped silently: the invocation does not return normally, the hull
\* failure reaches the caller, and no boundary is drawn for that cluster
C6_DegenerateReported ==
    (calls > 0 /\ \E id \in Range(clusters) :
                    Cardinality(MembersOf(id)) >= 3 /\ Degenerate(id)) =>
        /\ plot.status = "raised"
        /\ err = "QhullError"
        /\ \A id \in Range(clusters) : Degenerate(id) => PatchesOf(id) = {}

\* C6 witness: three distinct members on one line, reported as QhullError
C6_Witness ==
    /\ calls > 0
    /\ err = "QhullError"
    /\ \E id \in Range(clusters) :
         /\ Cardinality(MembersOf(id)) = 3
         /\ Cardinality(PointsOf(id)) = 3
         /\ Degenerate(id)

\* rank of a label among the distinct labels, from 0
Rank(id) == Cardinality({l \in Range(clusters) : l < id})

\* C7: two different labels never get the same colormap entry, and the
\* entry is the one at rank / K whatever the labels are
C7_DistinctColors ==
    \A k, l \in 1..Len(plot.patches) :
        LET p == plot.patches[k]
            q == plot.patches[l]
        IN  /\ p.cluster_id # q.cluster_id => p.color # q.color
            /\ p.color = (Rank(p.cluster_id) * LutSize) \div Cardinality(Range(clusters))

\* C9: every buffered vertex lies on the ray from the centroid of the hull
\* vertices through its hull vertex, farther out by the margin (to 2 steps
\* of rounding); the hull vertices are points the caller's array still holds
C9_BufferedByMargin ==
    \A k \in 1..Len(plot.patches) :
        LET patch == plot.patches[k]
            n == Len(patch.hull_points)
            c == patch.centroid
        IN  /\ Abs(n * c[1] - Sum(Column(patch.hull_points, 1))) <= n
            /\ Abs(n * c[2] - Sum(Column(patch.hull_points, 2))) <= n
            /\ \A i \in 1..n :
                 LET h == patch.hull_points[i]
                     b == patch.buffered_points[i]
                     dh == Sqrt(Dot(c, h, h))
                     db == Sqrt(Dot(c, b, b))
                 IN  /\ db > dh
                     /\ Abs(db - dh - Margin) <= 2
                     /\ Dot(c, h, b) > 0
                     /\ Abs(Cross(c, h, b)) <= 2 * dh
                     /\ h \in PointsOf(patch.cluster_id)

\* C9 witness: a polygon drawn around a hull of four vertices
C9_Witness ==
    /\ calls > 0
    /\ \E k \in 1..Len(plot.patches) :
         /\ Len(plot.patches[k].hull_points) = 4
         /\ Len(plot.patches[k].buffered_points) = 5

\* the limits of one axis are min - 0.2 * span and max + 0.2 * span of the
\* plotted coordinates xs, and every coordinate lies strictly inside them
PaddedLimits(lim, xs) ==
    \E lo, hi \in Range(xs) :
        /\ \A x \in Range(xs) : lo <= x /\ x <= hi
        /\ hi > lo =>
             /\ lim[1] = PadDen * lo - (hi - lo)
             /\ lim[2] = PadDen * hi + (hi - lo)
             /\ \A x \in Range(xs) : lim[1] < PadDen * x /\ PadDen * x < lim[2]

\* C10: on an axis with span > 0 the viewport is [min - 0.2 span,
\* max + 0.2 span] over the plotted points, so no point is on the edge
C10_ViewportPadded ==
    plot.status = "returned" =>
        /\ plot.markers = points_2d
        /\ PaddedLimits(plot.xlim, Column(points_2d, 1))
        /\ PaddedLimits(plot.ylim, Column(points_2d, 2))

\* C10 witness: a drawn plot whose points span both axes
C10_Witness ==
    /\ plot.status = "returned"
    /\ \E i, j \in 1..Len(points_2d) :
         /\ points_2d[i][1] < points_2d[j][1]
         /\ points_2d[i][2] < points_2d[j][2]
    /\ plot.xlim[1] < plot.xlim[2]
    /\ plot.ylim[1] < plot.ylim[2]

=============================================================================
